---- MODULE Spec2Model ----
(***************************************************************************)
(* HookManager of src/main.py: dotted-path resolution, the store of        *)
(* captured originals, the hooked set, and the live attributes the         *)
(* operations read and write; HookUtilities; and perform_action of the     *)
(* application with the exit it schedules.                                 *)
(*                                                                         *)
(* A dotted path is a sequence of one-character strings, "." being the     *)
(* separator, so that str.split and str.join are computed, not assumed.    *)
(* An object is named by a string; heap[o] holds its kind, its attributes  *)
(* (attribute name -> object) and, for a callable built by a patch, what   *)
(* it was built from.                                                      *)
(***************************************************************************)
EXTENDS Integers, Sequences, FiniteSets, TLC

VARIABLES
    world,          \* what importlib.import_module finds: module name -> status, module
    heap,           \* the live objects and their attributes
    originals,      \* HookManager.originals: (module, attr_path) -> original
    hooked,         \* HookManager.hooked: set of target paths
    WrapperinitEnd, \* the module-level flag patch_function sets
    patches,        \* history: per record, the callables patched in since its hook
    last,           \* the call just made: operation, arguments, exception, result
    app             \* the application: selected method, dialogs opened, Clock events

vars == <<world, heap, originals, hooked, WrapperinitEnd, patches, last, app>>

\* How many callables the patches may build in one run.
MaxNew == 2

\* Longest path string (in characters) given to _resolve_target in SpecResolve.
MaxPathLen == 5

\* How long the application's clock runs (seconds) and how many times
\* perform_action is called in one run.
MaxTime == 4
MaxDialogs == 2

None == "None"
NoExc == "none"

----------------------------------------------------------------------------
(* Strings *)

\* target_path.split('.'): the parts between the separators; never empty.
RECURSIVE split(_)
split(s) ==
    LET seps == {i \in 1..Len(s) : s[i] = "."}
    IN  IF seps = {} THEN <<s>>
        ELSE LET i == CHOOSE k \in seps : \A j \in seps : k <= j
             IN  <<SubSeq(s, 1, i - 1)>> \o split(SubSeq(s, i + 1, Len(s)))

\* '.'.join(parts)
RECURSIVE join(_)
join(parts) ==
    IF Len(parts) = 0 THEN <<>>
    ELSE IF Len(parts) = 1 THEN parts[1]
    ELSE parts[1] \o <<".">> \o join(Tail(parts))

\* name.rpartition('.')[0]: what precedes the last separator (empty if none).
parent_name(name) ==
    LET dots == {i \in 1..Len(name) : name[i] = "."}
    IN  IF dots = {} THEN <<>>
        ELSE SubSeq(name, 1, (CHOOSE i \in dots : \A j \in dots : j <= i) - 1)

----------------------------------------------------------------------------
(* Import *)

\* importlib.import_module(name) in world w.  An empty name raises ValueError,
\* a name starting with the separator is a relative import without a package
\* (TypeError), the parent package is imported first and its failure is the
\* failure of the import, a name the finders do not know raises
\* ModuleNotFoundError, and a module whose body raises fails with that error
\* (here ImportError, standing for any exception that is not
\* ModuleNotFoundError).
RECURSIVE import_module(_, _)
import_module(w, name) ==
    IF name = <<>> THEN [exc |-> "ValueError", module |-> None]
    ELSE IF name[1] = "." THEN [exc |-> "TypeError", module |-> None]
    ELSE LET parent == parent_name(name)
             up == IF parent = <<>>
                   THEN [exc |-> NoExc, module |-> None]
                   ELSE import_module(w, parent)
         IN  IF up.exc # NoExc THEN [exc |-> up.exc, module |-> None]
             ELSE IF name \notin DOMAIN w
                  THEN [exc |-> "ModuleNotFoundError", module |-> None]
             ELSE IF w[name].status = "broken"
                  THEN [exc |-> "ImportError", module |-> None]
             ELSE [exc |-> NoExc, module |-> w[name].module]

----------------------------------------------------------------------------
(* HookManager._resolve_target, _get_attr, _set_attr *)

\* The loop of _resolve_target from prefix length i down to 1.
RECURSIVE resolve_from(_, _, _)
resolve_from(w, parts, i) ==
    IF i = 0
    THEN [exc |-> "ModuleNotFoundError", module |-> None, attr_path |-> <<>>]
    ELSE LET r == import_module(w, join(SubSeq(parts, 1, i)))
         IN  IF r.exc = NoExc
             THEN [exc |-> NoExc, module |-> r.module,
                   attr_path |-> SubSeq(parts, i + 1, Len(parts))]
             ELSE IF r.exc = "ModuleNotFoundError"
                  THEN resolve_from(w, parts, i - 1)
             ELSE [exc |-> r.exc, module |-> None, attr_path |-> <<>>]

\* A resolution that prefers the shortest importable prefix.
RECURSIVE resolve_shortest(_, _, _)
resolve_shortest(w, parts, i) ==
    IF i > Len(parts)
    THEN [exc |-> "ModuleNotFoundError", module |-> None, attr_path |-> <<>>]
    ELSE LET r == import_module(w, join(SubSeq(parts, 1, i)))
         IN  IF r.exc = NoExc
             THEN [exc |-> NoExc, module |-> r.module,
                   attr_path |-> SubSeq(parts, i + 1, Len(parts))]
             ELSE IF r.exc = "ModuleNotFoundError"
                  THEN resolve_shortest(w, parts, i + 1)
             ELSE [exc |-> r.exc, module |-> None, attr_path |-> <<>>]

resolve_target_shortest(w, target_path) ==
    LET parts == split(target_path)
    IN  resolve_shortest(w, parts, 1)

resolve_target(w, target_path) ==
    LET parts == split(target_path)
    IN  resolve_from(w, parts, Len(parts))

\* What an object holds under a name dir() lists but whose access raises.
Raises == "<raises>"

\* name.startswith("__")
starts_dunder(name) == Len(name) >= 2 /\ name[1] = "_" /\ name[2] = "_"

\* _get_attr: getattr along the chain.
RECURSIVE get_attr(_, _, _)
get_attr(h, obj, attr_path) ==
    IF attr_path = <<>> THEN [exc |-> NoExc, value |-> obj]
    ELSE IF /\ Head(attr_path) \in DOMAIN h[obj].attrs
            /\ h[obj].attrs[Head(attr_path)] # Raises
         THEN get_attr(h, h[obj].attrs[Head(attr_path)], Tail(attr_path))
    ELSE [exc |-> "AttributeError", value |-> None]

\* setattr(obj, name, value) on heap h.
setattr(h, obj, name, value) ==
    [h EXCEPT ![obj].attrs =
        [a \in DOMAIN h[obj].attrs \cup {name} |->
            IF a = name THEN value ELSE h[obj].attrs[a]]]

\* _set_attr: getattr along all but the last name, then setattr; attr_path[-1]
\* of an empty chain raises IndexError.
set_attr(h, obj, attr_path, value) ==
    IF attr_path = <<>> THEN [exc |-> "IndexError", heap |-> h]
    ELSE LET g == get_attr(h, obj, SubSeq(attr_path, 1, Len(attr_path) - 1))
         IN  IF g.exc # NoExc THEN [exc |-> g.exc, heap |-> h]
             ELSE [exc |-> NoExc,
                   heap |-> setattr(h, g.value, attr_path[Len(attr_path)], value)]

----------------------------------------------------------------------------
(* The process the store runs in *)

\* Path strings, written as their characters.
P_c_K_N_g   == <<"c", ".", "K", ".", "N", ".", "g">>
P_a_b_K_N_g == <<"a", ".", "b", ".", "K", ".", "N", ".", "g">>
P_c_K       == <<"c", ".", "K">>
P_c         == <<"c">>
P_c_x       == <<"c", ".", "x">>
P_z_f       == <<"z", ".", "f">>

\* The target paths the callers pass: a nested attribute of a module, the
\* same attribute through the module's other name, a module itself, a
\* missing attribute, and a missing module.
Paths == {P_c_K_N_g, P_a_b_K_N_g, P_c, P_c_x, P_z_f}

\* A nested attribute and the class on the way to it: two targets of which
\* one lies on the other's chain.
OverlapPaths == {P_c_K_N_g, P_c_K}

\* A class and the class it is nested in: the inner target is the last hop of
\* its chain, the outer one the hop before it.
P_c_K_N == <<"c", ".", "K", ".", "N">>
NestedPaths == {P_c_K_N, P_c_K}

\* The messages given to patch_print ("hi" is its default) and the callables
\* given to patch_function.
Messages == {"hi"}
Funcs == {"func"}

NoAttrs == [a \in {} |-> None]

\* An object: its kind, its attributes, and for a function its __globals__
\* (name -> value).  callee and msg are what a patch's callable closes over.
Object(kind, attrs) ==
    [kind |-> kind, attrs |-> attrs, callee |-> None, msg |-> None,
     globals |-> NoAttrs]

\* Package a with submodule a.b, also importable as c (as os.path is
\* posixpath); e raises while it is imported.
World0 ==
    [n \in {<<"a">>, <<"a", ".", "b">>, <<"c">>, <<"e">>} |->
        IF n = <<"a">> THEN [status |-> "ok", module |-> "mod_a"]
        ELSE IF n = <<"e">> THEN [status |-> "broken", module |-> None]
        ELSE [status |-> "ok", module |-> "mod_b"]]

\* Attribute names of mod_b besides K: a dunder name, a name with one leading
\* underscore, and a name dir() lists whose access raises.
A_K     == <<"K">>
A_dunder == <<"_", "_", "d">>
A_under == <<"_", "p">>
A_lazy  == <<"l">>
A_h     == <<"h">>

\* mod_b defines class K; K.N is a nested class with method g.  func is the
\* callable given to patch_function; its globals bind K, h and __d.
Heap0 ==
    [o \in {"mod_a", "mod_b", "K0", "N0", "g0", "d0", "p0", "func"} |->
        CASE o = "mod_a" -> Object("module", [a \in {<<"b">>} |-> "mod_b"])
          [] o = "mod_b" -> Object("module",
                [a \in {A_K, A_dunder, A_under, A_lazy} |->
                    CASE a = A_K -> "K0"
                      [] a = A_dunder -> "d0"
                      [] a = A_under -> "p0"
                      [] OTHER -> Raises])
          [] o = "K0" -> Object("class", [a \in {<<"N">>} |-> "N0"])
          [] o = "N0" -> Object("class", [a \in {<<"g">>} |-> "g0"])
          [] o = "d0" -> Object("data", NoAttrs)
          [] o = "func" -> [Object("function", NoAttrs) EXCEPT
                               !.globals = [a \in {A_K, A_h, A_dunder} |->
                                   CASE a = A_K -> "func_K"
                                     [] a = A_h -> "func_h"
                                     [] OTHER -> "func_d"]]
          [] OTHER -> Object("function", NoAttrs)]

\* _resolve_target(target_path) in the current world.  The value is
\* resolve_target(world, target_path); for World0 and the paths above it is
\* looked up in a table computed once from the same operator.
Resolved0 == [p \in Paths \cup OverlapPaths \cup NestedPaths |-> resolve_target(World0, p)]
resolve(target_path) ==
    IF world = World0 /\ target_path \in DOMAIN Resolved0
    THEN Resolved0[target_path]
    ELSE resolve_target(world, target_path)

\* The callables the patches have built so far, and the next one's name.
Built == {o \in DOMAIN heap : heap[o].kind \in {"wrapped", "rebound"}}
NewObj == "obj" \o ToString(Cardinality(Built) + 1)

Empty == [k \in {} |-> None]
Put(f, k, v) == [x \in DOMAIN f \cup {k} |-> IF x = k THEN v ELSE f[x]]
Pop(f, k) == [x \in DOMAIN f \ {k} |-> f[x]]

\* The state a call leaves, and the exception it raised.
Same(exc) ==
    [exc |-> exc, heap |-> heap, originals |-> originals, hooked |-> hooked,
     flag |-> WrapperinitEnd, patches |-> patches]

----------------------------------------------------------------------------
(* HookManager's operations *)

\* A lookup environment that takes every name of dir(module) whose getattr
\* does not raise, the names starting with "__" included.
rebind_globals_all(h, module, func) ==
    LET own == h[func].globals
        taken == {n \in DOMAIN h[module].attrs : h[module].attrs[n] # Raises}
    IN  [n \in DOMAIN own \cup taken |->
            IF n \in taken THEN h[module].attrs[n] ELSE own[n]]

\* The lookup environment patch_function builds: a copy of func.__globals__
\* in which every name of dir(module) that does not start with "__" and
\* whose getattr does not raise is bound to the module's value.
rebind_globals(h, module, func) ==
    LET own == h[func].globals
        taken == {n \in DOMAIN h[module].attrs :
                     ~starts_dunder(n) /\ h[module].attrs[n] # Raises}
    IN  [n \in DOMAIN own \cup taken |->
            IF n \in taken THEN h[module].attrs[n] ELSE own[n]]

\* hook without the AlreadyHooked test: the second hook overwrites the record.
hook_overwrites(target_path) ==
    LET r == resolve(target_path)
        key == <<r.module, r.attr_path>>
        g == get_attr(heap, r.module, r.attr_path)
    IN  IF r.exc # NoExc THEN Same(r.exc)
        ELSE IF g.exc # NoExc THEN Same(g.exc)
        ELSE [Same(NoExc) EXCEPT !.originals = Put(originals, key, g.value),
                                 !.hooked = hooked \cup {target_path},
                                 !.patches = Put(patches, key, <<>>)]

\* hook that makes the record and the marker before it reads the attribute.
hook_records_first(target_path) ==
    LET r == resolve(target_path)
        key == <<r.module, r.attr_path>>
        g == get_attr(heap, r.module, r.attr_path)
    IN  IF r.exc # NoExc THEN Same(r.exc)
        ELSE IF key \in DOMAIN originals THEN Same("AlreadyHooked")
        ELSE [Same(g.exc) EXCEPT !.originals = Put(originals, key, g.value),
                                 !.hooked = hooked \cup {target_path},
                                 !.patches = Put(patches, key, <<>>)]

\* hook that records the value the attribute had before any patch.
hook_captures_first(target_path) ==
    LET r == resolve(target_path)
        key == <<r.module, r.attr_path>>
        g == get_attr(Heap0, r.module, r.attr_path)
    IN  IF r.exc # NoExc THEN Same(r.exc)
        ELSE IF key \in DOMAIN originals THEN Same("AlreadyHooked")
        ELSE IF g.exc # NoExc THEN Same(g.exc)
        ELSE [Same(NoExc) EXCEPT !.originals = Put(originals, key, g.value),
                                 !.hooked = hooked \cup {target_path},
                                 !.patches = Put(patches, key, <<>>)]

hook(target_path) ==
    LET r == resolve(target_path)
        key == <<r.module, r.attr_path>>
        g == get_attr(heap, r.module, r.attr_path)
    IN  IF r.exc # NoExc THEN Same(r.exc)
        ELSE IF key \in DOMAIN originals THEN Same("AlreadyHooked")
        ELSE IF g.exc # NoExc THEN Same(g.exc)
        ELSE [Same(NoExc) EXCEPT !.originals = Put(originals, key, g.value),
                                 !.hooked = hooked \cup {target_path},
                                 !.patches = Put(patches, key, <<>>)]

\* patch_print that also remembers the value it replaces as the original.
patch_print_stacks(target_path, message) ==
    LET r == resolve(target_path)
        key == <<r.module, r.attr_path>>
    IN  IF r.exc # NoExc THEN Same(r.exc)
        ELSE IF key \notin DOMAIN originals THEN Same("NotHooked")
        ELSE LET wrapped == [Object("wrapped", NoAttrs) EXCEPT
                                !.callee = originals[key], !.msg = message]
                 s == set_attr(Put(heap, NewObj, wrapped), r.module, r.attr_path, NewObj)
             IN  IF s.exc # NoExc THEN Same(s.exc)
                 ELSE [Same(NoExc) EXCEPT
                          !.heap = s.heap,
                          !.originals = Put(originals, key,
                              get_attr(heap, r.module, r.attr_path).value),
                          !.patches = Put(patches, key, Append(patches[key], NewObj))]

\* patch_print without the NotHooked test.
patch_print_unchecked(target_path, message) ==
    LET r == resolve(target_path)
        key == <<r.module, r.attr_path>>
    IN  IF r.exc # NoExc THEN Same(r.exc)
        ELSE LET wrapped == [Object("wrapped", NoAttrs) EXCEPT
                                !.callee = IF key \in DOMAIN originals
                                           THEN originals[key] ELSE None,
                                !.msg = message]
                 s == set_attr(Put(heap, NewObj, wrapped), r.module, r.attr_path, NewObj)
             IN  IF s.exc # NoExc THEN Same(s.exc)
                 ELSE [Same(NoExc) EXCEPT
                          !.heap = s.heap,
                          !.patches = IF key \in DOMAIN patches
                                      THEN Put(patches, key, Append(patches[key], NewObj))
                                      ELSE patches]

\* patch_print whose callable delegates to the value live just before it.
patch_print_wraps_live(target_path, message) ==
    LET r == resolve(target_path)
        key == <<r.module, r.attr_path>>
    IN  IF r.exc # NoExc THEN Same(r.exc)
        ELSE IF key \notin DOMAIN originals THEN Same("NotHooked")
        ELSE LET wrapped == [Object("wrapped", NoAttrs) EXCEPT
                                !.callee = get_attr(heap, r.module, r.attr_path).value,
                                !.msg = message]
                 s == set_attr(Put(heap, NewObj, wrapped), r.module, r.attr_path, NewObj)
             IN  IF s.exc # NoExc THEN Same(s.exc)
                 ELSE [Same(NoExc) EXCEPT
                          !.heap = s.heap,
                          !.patches = Put(patches, key, Append(patches[key], NewObj))]

patch_print(target_path, message) ==
    LET r == resolve(target_path)
        key == <<r.module, r.attr_path>>
    IN  IF r.exc # NoExc THEN Same(r.exc)
        ELSE IF key \notin DOMAIN originals THEN Same("NotHooked")
        ELSE LET wrapped == [Object("wrapped", NoAttrs) EXCEPT
                                !.callee = originals[key], !.msg = message]
                 s == set_attr(Put(heap, NewObj, wrapped), r.module, r.attr_path, NewObj)
             IN  IF s.exc # NoExc THEN Same(s.exc)
                 ELSE [Same(NoExc) EXCEPT
                          !.heap = s.heap,
                          !.patches = Put(patches, key, Append(patches[key], NewObj))]

\* patch_function that sets WrapperinitEnd before it assigns the attribute.
patch_function_flags_early(target_path, func) ==
    LET r == resolve(target_path)
        key == <<r.module, r.attr_path>>
    IN  IF r.exc # NoExc THEN Same(r.exc)
        ELSE IF key \notin DOMAIN originals THEN Same("NotHooked")
        ELSE LET rebound == [Object("rebound", NoAttrs) EXCEPT
                                !.callee = func,
                                !.globals = rebind_globals(heap, r.module, func)]
                 s == set_attr(Put(heap, NewObj, rebound), r.module, r.attr_path, NewObj)
             IN  IF s.exc # NoExc THEN [Same(s.exc) EXCEPT !.flag = TRUE]
                 ELSE [Same(NoExc) EXCEPT
                          !.heap = s.heap,
                          !.flag = TRUE,
                          !.patches = Put(patches, key, Append(patches[key], NewObj))]

patch_function(target_path, func) ==
    LET r == resolve(target_path)
        key == <<r.module, r.attr_path>>
    IN  IF r.exc # NoExc THEN Same(r.exc)
        ELSE IF key \notin DOMAIN originals THEN Same("NotHooked")
        ELSE LET rebound == [Object("rebound", NoAttrs) EXCEPT
                                !.callee = func,
                                !.globals = rebind_globals(heap, r.module, func)]
                 s == set_attr(Put(heap, NewObj, rebound), r.module, r.attr_path, NewObj)
             IN  IF s.exc # NoExc THEN Same(s.exc)
                 ELSE [Same(NoExc) EXCEPT
                          !.heap = s.heap,
                          !.flag = TRUE,
                          !.patches = Put(patches, key, Append(patches[key], NewObj))]

\* restore that drops the record and the marker but writes nothing.
restore_skips_write(target_path) ==
    LET r == resolve(target_path)
        key == <<r.module, r.attr_path>>
    IN  IF r.exc # NoExc THEN Same(r.exc)
        ELSE IF key \notin DOMAIN originals THEN Same("NotHooked")
        ELSE [Same(NoExc) EXCEPT !.originals = Pop(originals, key),
                                 !.hooked = hooked \ {target_path},
                                 !.patches = Pop(patches, key)]

\* originals.pop(key) is evaluated before _set_attr is called, so the record
\* is gone when _set_attr raises.
restore(target_path) ==
    LET r == resolve(target_path)
        key == <<r.module, r.attr_path>>
    IN  IF r.exc # NoExc THEN Same(r.exc)
        ELSE IF key \notin DOMAIN originals THEN Same("NotHooked")
        ELSE LET s == set_attr(heap, r.module, r.attr_path, originals[key])
             IN  IF s.exc # NoExc
                 THEN [Same(s.exc) EXCEPT !.originals = Pop(originals, key),
                                          !.patches = Pop(patches, key)]
                 ELSE [Same(NoExc) EXCEPT !.heap = s.heap,
                                          !.originals = Pop(originals, key),
                                          !.hooked = hooked \ {target_path},
                                          !.patches = Pop(patches, key)]

\* unhook_target that writes the original back, as restore does.
unhook_target_writes(target_path) == restore(target_path)

\* unhook_target that discards the marker and keeps the record.
unhook_target_keeps_record(target_path) ==
    LET r == resolve(target_path)
        key == <<r.module, r.attr_path>>
    IN  IF r.exc # NoExc THEN Same(r.exc)
        ELSE IF key \notin DOMAIN originals THEN Same("NotHooked")
        ELSE [Same(NoExc) EXCEPT !.hooked = hooked \ {target_path}]

unhook_target(target_path) ==
    LET r == resolve(target_path)
        key == <<r.module, r.attr_path>>
    IN  IF r.exc # NoExc THEN Same(r.exc)
        ELSE IF key \notin DOMAIN originals THEN Same("NotHooked")
        ELSE [Same(NoExc) EXCEPT !.originals = Pop(originals, key),
                                 !.hooked = hooked \ {target_path},
                                 !.patches = Pop(patches, key)]

\* The heap after every stored original is written back, one record at a time.
RECURSIVE write_back(_, _)
write_back(h, keys) ==
    IF keys = {} THEN h
    ELSE LET k == CHOOSE x \in keys : TRUE
         IN  write_back(set_attr(h, k[1], k[2], originals[k]).heap, keys \ {k})

\* unhook that restores every record before it clears the store.
unhook_writes_back ==
    IF DOMAIN originals = {} THEN Same("NotPatched")
    ELSE [Same(NoExc) EXCEPT !.heap = write_back(heap, DOMAIN originals),
                             !.originals = Empty,
                             !.hooked = {},
                             !.patches = Empty]

\* unhook that forgets to clear the hooked set.
unhook_keeps_markers ==
    IF DOMAIN originals = {} THEN Same("NotPatched")
    ELSE [Same(NoExc) EXCEPT !.originals = Empty, !.patches = Empty]

\* The loop over originals only logs; then both collections are cleared.
unhook ==
    IF DOMAIN originals = {} THEN Same("NotPatched")
    ELSE [Same(NoExc) EXCEPT !.originals = Empty,
                             !.hooked = {},
                             !.patches = Empty]

----------------------------------------------------------------------------
(* Calling a live object, and HookUtilities *)

CallArgs == {"x", "y"}

\* What a function's own code returns for the arguments it is given.
Returned(f, args) == f \o "(" \o args \o ")"

\* Calling obj with args: the exception, the value returned and the lines
\* printed.  The callable patch_print installs prints its message and returns
\* what its callee returns; the function patch_function builds runs func's
\* code; a module or a plain value is not callable.
RECURSIVE invoke(_, _, _)
invoke(h, obj, args) ==
    LET o == h[obj]
    IN  CASE o.kind = "wrapped" ->
                LET r == invoke(h, o.callee, args)
                IN  [r EXCEPT !.out = <<o.msg>> \o r.out]
          [] o.kind = "rebound" ->
                [exc |-> NoExc, value |-> Returned(o.callee, args), out |-> <<>>]
          [] o.kind \in {"function", "class"} ->
                [exc |-> NoExc, value |-> Returned(obj, args), out |-> <<>>]
          [] OTHER -> [exc |-> "TypeError", value |-> None, out |-> <<>>]

is_hooked(target_path) == target_path \in hooked

list_hooks == hooked

\* inspect.isfunction
isfunction(h, obj) == h[obj].kind \in {"function", "wrapped", "rebound"}

\* scan_module_functions: only ModuleNotFoundError is caught.  The names are
\* unique and come sorted, so the list is given as their set.
scan_module_functions(w, h, module_name) ==
    LET m == import_module(w, module_name)
    IN  IF m.exc = "ModuleNotFoundError"
        THEN [exc |-> NoExc, names |-> {}, out |-> <<"Module not found">>]
        ELSE IF m.exc # NoExc
        THEN [exc |-> m.exc, names |-> {}, out |-> <<>>]
        ELSE [exc |-> NoExc,
              names |-> {n \in DOMAIN h[m.module].attrs :
                            /\ h[m.module].attrs[n] # Raises
                            /\ isfunction(h, h[m.module].attrs[n])},
              out |-> <<>>]

\* The line safe_call prints for the exception it caught.
Failed(exc) == "Error during safe_call: " \o exc

\* safe_call that calls the stored original of a hooked target.
safe_call_original(target_path, args) ==
    LET r == resolve(target_path)
        key == <<r.module, r.attr_path>>
        g == get_attr(heap, r.module, r.attr_path)
        c == invoke(heap, IF key \in DOMAIN originals THEN originals[key] ELSE g.value,
                    args)
    IN  IF r.exc # NoExc
        THEN [exc |-> NoExc, value |-> None, out |-> <<Failed(r.exc)>>]
        ELSE IF g.exc # NoExc
        THEN [exc |-> NoExc, value |-> None, out |-> <<Failed(g.exc)>>]
        ELSE IF c.exc # NoExc
        THEN [exc |-> NoExc, value |-> None, out |-> Append(c.out, Failed(c.exc))]
        ELSE c

\* safe_call: resolve, read the live attribute, call it; every Exception is
\* caught and reported.
safe_call(target_path, args) ==
    LET r == resolve(target_path)
        g == get_attr(heap, r.module, r.attr_path)
        c == invoke(heap, g.value, args)
    IN  IF r.exc # NoExc
        THEN [exc |-> NoExc, value |-> None, out |-> <<Failed(r.exc)>>]
        ELSE IF g.exc # NoExc
        THEN [exc |-> NoExc, value |-> None, out |-> <<Failed(g.exc)>>]
        ELSE IF c.exc # NoExc
        THEN [exc |-> NoExc, value |-> None, out |-> Append(c.out, Failed(c.exc))]
        ELSE c

----------------------------------------------------------------------------
(* UltraInjectorApp *)

TARGET_PACKAGE == "com.axelbolt.standoff2"

\* The delay given to Clock.schedule_once, in seconds.
ExitDelay == 3

\* The entries of the dropdown menu.
MenuItems == {"Patch", "Inject", "Die"}

\* The application after build: the method button reads "Select", no dialog
\* was opened, no Clock event is pending.  timers holds the times at which
\* the scheduled exits fall due.
App0 == [method |-> "Select", dialogs |-> <<>>, timers |-> {}, now |-> 0,
         exited |-> FALSE]

\* The message perform_action picks for the text of the method button.  The
\* Die message ends with an emoji in the source, left out here.
message_for(method) ==
    CASE method = "Patch" -> "Hooked and patched " \o TARGET_PACKAGE
      [] method = "Inject" -> "Injected"
      [] method = "Die" -> "Alr goodbye"
      [] OTHER -> "No method selected"

\* perform_action that exits in the next frame.
perform_action_no_delay(a) ==
    [a EXCEPT !.timers = IF a.method = "Die" THEN @ \cup {a.now} ELSE @,
              !.dialogs = Append(@, [title |-> a.method,
                                     text |-> message_for(a.method),
                                     at |-> a.now])]

\* perform_action: for Die the exit is scheduled ExitDelay from now; then the
\* dialog is built and opened, all in one handler run.
perform_action(a) ==
    [a EXCEPT !.timers = IF a.method = "Die" THEN @ \cup {a.now + ExitDelay} ELSE @,
              !.dialogs = Append(@, [title |-> a.method,
                                     text |-> message_for(a.method),
                                     at |-> a.now])]

SetMethod ==
    /\ ~app.exited
    /\ \E m \in MenuItems : app' = [app EXCEPT !.method = m]
    /\ UNCHANGED <<world, heap, originals, hooked, WrapperinitEnd, patches, last>>

PerformAction ==
    /\ ~app.exited
    /\ Len(app.dialogs) < MaxDialogs
    /\ app' = perform_action(app)
    /\ UNCHANGED <<world, heap, originals, hooked, WrapperinitEnd, patches, last>>

\* A second passes.
Tick ==
    /\ ~app.exited
    /\ app.now < MaxTime
    /\ app' = [app EXCEPT !.now = @ + 1]
    /\ UNCHANGED <<world, heap, originals, hooked, WrapperinitEnd, patches, last>>

\* The Clock calls a scheduled callback that has fallen due: sys.exit(0).
ExitFires ==
    /\ ~app.exited
    /\ \E t \in app.timers : t <= app.now
    /\ app' = [app EXCEPT !.exited = TRUE]
    /\ UNCHANGED <<world, heap, originals, hooked, WrapperinitEnd, patches, last>>

----------------------------------------------------------------------------
(* Calls *)

\* What a call returned: a resolution (module, attr_path), a value, a list
\* of names, and the lines it printed besides the notices.
NoResult ==
    [module |-> None, attr_path |-> <<>>, value |-> None, names |-> {}, out |-> <<>>]

\* A call takes the store, the live objects and the flag to the state its
\* handler leaves; last records the call, the exception it raised, what it
\* returned, and the patch histories of the records it removed.
Call(op, target_path, arg, out, result) ==
    /\ heap' = out.heap
    /\ originals' = out.originals
    /\ hooked' = out.hooked
    /\ WrapperinitEnd' = out.flag
    /\ patches' = out.patches
    /\ last' = [op |-> op, path |-> target_path, arg |-> arg, exc |-> out.exc,
                result |-> result,
                dropped |-> {patches[k] : k \in DOMAIN patches \ DOMAIN out.patches}]
    /\ UNCHANGED <<world, app>>

Hook(paths) ==
    \E p \in paths : \E out \in {hook(p)} : Call("hook", p, None, out, NoResult)

PatchPrint(paths) ==
    \E p \in paths, m \in Messages : \E out \in {patch_print(p, m)} :
        /\ out.exc = NoExc => Cardinality(Built) < MaxNew
        /\ Call("patch_print", p, m, out, NoResult)

PatchFunction(paths) ==
    \E p \in paths, f \in Funcs : \E out \in {patch_function(p, f)} :
        /\ out.exc = NoExc => Cardinality(Built) < MaxNew
        /\ Call("patch_function", p, f, out, NoResult)

Restore(paths) ==
    \E p \in paths : \E out \in {restore(p)} :
        Call("restore", p, None, out, NoResult)

UnhookTarget(paths) ==
    \E p \in paths : \E out \in {unhook_target(p)} :
        Call("unhook_target", p, None, out, NoResult)

Unhook ==
    \E out \in {unhook} : Call("unhook", <<>>, None, out, NoResult)

ResolveTarget(paths) ==
    \E p \in paths : \E r \in {resolve(p)} :
        Call("resolve", p, None, Same(r.exc),
             [NoResult EXCEPT !.module = r.module, !.attr_path = r.attr_path])

SafeCall(paths) ==
    \E p \in paths, a \in CallArgs : \E c \in {safe_call(p, a)} :
        Call("safe_call", p, a, Same(c.exc),
             [NoResult EXCEPT !.value = c.value, !.out = c.out])

ScanModuleFunctions(names) ==
    \E n \in names : \E c \in {scan_module_functions(world, heap, n)} :
        Call("scan_module_functions", n, None, Same(c.exc),
             [NoResult EXCEPT !.names = c.names, !.out = c.out])

NoCall ==
    [op |-> "none", path |-> <<>>, arg |-> None, exc |-> NoExc, result |-> NoResult,
     dropped |-> {}]

Init ==
    /\ world = World0
    /\ heap = Heap0
    /\ originals = Empty
    /\ hooked = {}
    /\ WrapperinitEnd = FALSE
    /\ patches = Empty
    /\ last = NoCall
    /\ app = App0

Next ==
    \/ Hook(Paths)
    \/ PatchPrint(Paths)
    \/ PatchFunction(Paths)
    \/ Restore(Paths)
    \/ UnhookTarget(Paths)
    \/ Unhook
    \/ ResolveTarget(Paths)
    \/ SafeCall(Paths)

Spec == Init /\ [][Next]_vars

\* The same store driven through two targets of which one lies on the chain
\* of the other.
NextOverlap ==
    \/ Hook(OverlapPaths)
    \/ PatchPrint(OverlapPaths)
    \/ PatchFunction(OverlapPaths)
    \/ Restore(OverlapPaths)
    \/ UnhookTarget(OverlapPaths)
    \/ Unhook
    \/ ResolveTarget(OverlapPaths)
    \/ SafeCall(OverlapPaths)

SpecOverlap == Init /\ [][NextOverlap]_vars

\* The same store driven through a target and the target that holds it.
NextNested ==
    \/ Hook(NestedPaths)
    \/ PatchPrint(NestedPaths)
    \/ Restore(NestedPaths)
    \/ UnhookTarget(NestedPaths)
    \/ Unhook

SpecNested == Init /\ [][NextNested]_vars

\* The application running in a process in which a store is in use on one
\* target.
NextApp ==
    \/ SetMethod
    \/ PerformAction
    \/ Tick
    \/ ExitFires
    \/ ~app.exited /\ Hook({P_c_K_N_g})
    \/ ~app.exited /\ PatchPrint({P_c_K_N_g})

SpecApp == Init /\ [][NextApp]_vars

----------------------------------------------------------------------------
(* _resolve_target alone, over every short path string and every world *)

Chars == {"a", "b", "."}

\* Every string of at most MaxPathLen characters, the empty one included.
ResolvePaths == UNION {[1..n -> Chars] : n \in 0..MaxPathLen}

WorldNames == {<<"a">>, <<"a", ".", "b">>, <<"a", ".", "b", ".", "a">>, <<"b">>}

ModuleOf(name) ==
    CASE name = <<"a">> -> "mod_a"
      [] name = <<"a", ".", "b">> -> "mod_a_b"
      [] name = <<"a", ".", "b", ".", "a">> -> "mod_a_b_a"
      [] OTHER -> "mod_b"

\* The world in which each name of WorldNames is a module ("ok"), is unknown
\* to the finders ("missing") or raises while it is imported ("broken").
WorldOf(st) ==
    [n \in {m \in WorldNames : st[m] # "missing"} |->
        [status |-> st[n], module |-> IF st[n] = "ok" THEN ModuleOf(n) ELSE None]]

Worlds == {WorldOf(st) : st \in [WorldNames -> {"ok", "missing", "broken"}]}

InitResolve ==
    /\ world \in Worlds
    /\ heap = [o \in {"fn", "K0"} \cup
                       {world[n].module : n \in {m \in DOMAIN world : world[m].status = "ok"}}
                  |-> CASE o = "fn" -> Object("function", NoAttrs)
                        [] o = "K0" -> Object("class", NoAttrs)
                        [] OTHER -> Object("module", [a \in {<<"f">>, A_K} |->
                                        IF a = A_K THEN "K0" ELSE "fn"])]
    /\ originals = Empty
    /\ hooked = {}
    /\ WrapperinitEnd = FALSE
    /\ patches = Empty
    /\ last = NoCall
    /\ app = App0

\* One call of _resolve_target or of scan_module_functions per run.
NextResolve ==
    \/ last = NoCall /\ ResolveTarget(ResolvePaths)
    \/ last = NoCall /\ ScanModuleFunctions(ResolvePaths)

SpecResolve == InitResolve /\ [][NextResolve]_vars

----------------------------------------------------------------------------
(* Properties *)

\* What target_path resolves to in the current world, and the attribute that
\* is live there on heap h.
Resolves(target_path) == resolve(target_path).exc = NoExc
KeyOf(target_path) == <<resolve(target_path).module, resolve(target_path).attr_path>>
LiveOn(h, key) == get_attr(h, key[1], key[2])
Found(value) == [exc |-> NoExc, value |-> value]
IsPatch(op) == op \in {"patch_print", "patch_function"}

\* C1: for every path on which hook succeeds (the attribute chain may be
\* empty), hook(path) followed immediately by restore(path) leaves the live
\* attribute equal to its pre-hook value, leaves no record for the target and
\* leaves the path out of the hooked set.  (hook writes no attribute, so the
\* pre-hook value is the one live between the two calls.)
C1_HookThenRestore ==
    [][(/\ last.op = "hook" /\ last.exc = NoExc
        /\ last'.op = "restore" /\ last'.path = last.path)
       => (/\ LiveOn(heap', KeyOf(last.path)) = LiveOn(heap, KeyOf(last.path))
           /\ KeyOf(last.path) \notin DOMAIN originals'
           /\ last.path \notin hooked')]_vars

\* C2 as stated: unhook on a non-empty store leaves the live attribute of
\* every target that had a record equal to the original stored for it, and
\* leaves no record and no hooked marker.
C2_UnhookRestoresAll ==
    [][(last'.op = "unhook" /\ DOMAIN originals # {})
       => (/\ \A k \in DOMAIN originals : LiveOn(heap', k) = Found(originals[k])
           /\ DOMAIN originals' = {}
           /\ hooked' = {})]_vars

\* C2 as amended: unhook on a non-empty store removes every record and every
\* hooked marker and writes no attribute: every live attribute keeps the
\* value it had before the call, so a patched target stays patched.
C2_UnhookWritesNothing ==
    [][(last'.op = "unhook" /\ DOMAIN originals # {})
       => (/\ last'.exc = NoExc
           /\ heap' = heap
           /\ DOMAIN originals' = {}
           /\ hooked' = {})]_vars

\* unhook has returned and the attribute c.K.N.g is still the callable a patch
\* put there, with no record left to restore it from.
C2_Witness ==
    /\ last.op = "unhook" /\ last.exc = NoExc
    /\ DOMAIN originals = {}
    /\ LiveOn(heap, KeyOf(P_c_K_N_g)).value \in Built

\* C3: after any sequence of calls, also through different paths that resolve
\* to the same key, every path in the hooked set has a record in the store
\* for the key it resolves to.
C3_HookedHaveRecords ==
    \A p \in hooked : Resolves(p) /\ KeyOf(p) \in DOMAIN originals

\* C4: a restore that returns sets the live attribute to the value hook
\* captured, whatever patches (print wrapper or rebind, one or more) were
\* applied since: hook stores the value live at that time, no patch call
\* changes a stored original, and restore writes the stored original back.
C4_RestoreToHookValue ==
    [][/\ (last'.op = "hook" /\ last'.exc = NoExc)
            => LET key == KeyOf(last'.path)
               IN  /\ originals'[key] = LiveOn(heap, key).value
                   /\ \A k \in DOMAIN originals : originals'[k] = originals[k]
       /\ IsPatch(last'.op) => originals' = originals
       /\ (last'.op = "restore" /\ last'.exc = NoExc)
            => LET key == KeyOf(last'.path)
               IN  /\ LiveOn(heap', key) = Found(originals[key])
                   /\ \A i \in 1..Len(patches[key]) :
                          LiveOn(heap', key).value # patches[key][i]]_vars

\* restore has returned on a target that was patched with a print wrapper and
\* then with a rebound function; the original function is live again.
C4_Witness ==
    /\ last.op = "restore" /\ last.exc = NoExc
    /\ LiveOn(heap, KeyOf(last.path)) = Found("g0")
    /\ \E done \in last.dropped :
          /\ Len(done) = 2
          /\ heap[done[1]].kind = "wrapped"
          /\ heap[done[2]].kind = "rebound"

\* C5: hook on a target that already has a record, through the same path or
\* another path resolving to the same key, fails with AlreadyHooked and
\* leaves the stored originals, the hooked set and the live attributes
\* unchanged.
C5_SecondHookFails ==
    [][(/\ last'.op = "hook" /\ Resolves(last'.path)
        /\ KeyOf(last'.path) \in DOMAIN originals)
       => (/\ last'.exc = "AlreadyHooked"
           /\ UNCHANGED <<originals, hooked, heap>>)]_vars

\* The second hook came through a path that is not in the hooked set.
C5_Witness ==
    /\ last.op = "hook" /\ last.exc = "AlreadyHooked"
    /\ last.path \notin hooked
    /\ KeyOf(last.path) \in DOMAIN originals

\* C6: patch_print, patch_function, restore and unhook_target on a
\* resolvable path whose key has no record fail with NotHooked and change
\* neither the records, nor the hooked set, nor any live attribute, nor the
\* flag WrapperinitEnd.
C6_NotHookedChangesNothing ==
    [][(/\ (IsPatch(last'.op) \/ last'.op \in {"restore", "unhook_target"})
        /\ Resolves(last'.path)
        /\ KeyOf(last'.path) \notin DOMAIN originals)
       => (/\ last'.exc = "NotHooked"
           /\ UNCHANGED <<originals, hooked, heap, WrapperinitEnd>>)]_vars

\* A rebind patch was refused on a target whose attribute exists.
C6_Witness ==
    /\ last.op = "patch_function" /\ last.exc = "NotHooked"
    /\ LiveOn(heap, KeyOf(last.path)).exc = NoExc
    /\ ~WrapperinitEnd

\* C7: unhook_target on a target with a record removes the record and the
\* path's hooked marker and writes nothing: every live attribute keeps the
\* value it had before the call; when that value is not the stored original
\* (a patch is live), it is not the value restore would have left.
C7_DetachWritesNothing ==
    [][(/\ last'.op = "unhook_target" /\ Resolves(last'.path)
        /\ KeyOf(last'.path) \in DOMAIN originals)
       => LET key == KeyOf(last'.path)
          IN  /\ last'.exc = NoExc
              /\ key \notin DOMAIN originals'
              /\ last'.path \notin hooked'
              /\ heap' = heap
              /\ (/\ LiveOn(heap, key).exc = NoExc
                  /\ LiveOn(heap, key) # Found(originals[key]))
                 => LiveOn(heap', key) # LiveOn(restore(last'.path).heap, key)]_vars

\* unhook_target has returned on a patched target: the callable of the last
\* patch is still live.
C7_Witness ==
    /\ last.op = "unhook_target" /\ last.exc = NoExc
    /\ KeyOf(last.path) \notin DOMAIN originals
    /\ \E done \in last.dropped :
          /\ done # <<>>
          /\ LiveOn(heap, KeyOf(last.path)) = Found(done[Len(done)])

\* C8: unhook on an empty store fails with NotPatched and changes nothing; on
\* a non-empty store it removes every record and every hooked marker.
C8_UnhookEmptyOrClears ==
    [][last'.op = "unhook"
       => IF DOMAIN originals = {}
          THEN /\ last'.exc = "NotPatched"
               /\ UNCHANGED <<originals, hooked, heap, WrapperinitEnd>>
          ELSE /\ last'.exc = NoExc
               /\ DOMAIN originals' = {}
               /\ hooked' = {}]_vars

\* unhook was refused on an empty store.
C8_Witness ==
    /\ last.op = "unhook" /\ last.exc = "NotPatched"
    /\ DOMAIN originals = {}

\* C9: when _resolve_target returns, the module is the import of the longest
\* prefix of the parts that imports, and the attribute chain is exactly the
\* parts after that prefix, in order; it returns whenever some prefix imports
\* and every longer prefix is not found.
C9_LongestPrefix ==
    last.op = "resolve" =>
        LET parts == split(last.path)
            try(i) == import_module(world, join(SubSeq(parts, 1, i)))
            importable == {i \in 1..Len(parts) : try(i).exc = NoExc}
            longest == CHOOSE i \in importable : \A j \in importable : j <= i
        IN  /\ last.exc = NoExc =>
                /\ importable # {}
                /\ last.result.module = try(longest).module
                /\ last.result.attr_path = SubSeq(parts, longest + 1, Len(parts))
            /\ (/\ importable # {}
                /\ \A j \in (longest + 1)..Len(parts) :
                       try(j).exc = "ModuleNotFoundError")
               => last.exc = NoExc

\* "a.b.a" resolved to module a.b with chain ("a"), while "a" imports too.
C9_Witness ==
    /\ last.op = "resolve" /\ last.exc = NoExc
    /\ last.result.module = "mod_a_b"
    /\ last.result.attr_path = << <<"a">> >>
    /\ import_module(world, <<"a">>).exc = NoExc

\* C10: _resolve_target fails with ModuleNotFoundError whenever no prefix of
\* the path imports, whatever the reason an import attempt fails, and also
\* for the empty path string.
C10_ModuleNotFound ==
    (/\ last.op = "resolve"
     /\ \A i \in 1..Len(split(last.path)) :
            import_module(world, join(SubSeq(split(last.path), 1, i))).exc # NoExc)
    => last.exc = "ModuleNotFoundError"

\* The callable the last patch of a record installed, None when the record
\* was never patched.
LastPatch(key) ==
    IF patches[key] = <<>> THEN None ELSE patches[key][Len(patches[key])]

\* C11: after patch_print succeeds on a hooked target, a call of the live
\* attribute prints the configured message first and then does what a call of
\* the original stored at hook time does with the same arguments, returning
\* its result; the record is the one hook stored, whatever patch was live
\* before.  safe_call on a target whose live attribute is that callable
\* prints and returns exactly this.
C11_WrapperCallsStoredOriginal ==
    [][/\ (last'.op = "patch_print" /\ last'.exc = NoExc) =>
            LET key == KeyOf(last'.path)
                live == LiveOn(heap', key)
            IN  /\ originals' = originals
                /\ live.exc = NoExc
                /\ \A a \in CallArgs :
                       LET orig == invoke(heap', originals[key], a)
                       IN  invoke(heap', live.value, a) =
                               [orig EXCEPT !.out = <<last'.arg>> \o orig.out]
       /\ (/\ last'.op = "safe_call"
           /\ Resolves(last'.path)
           /\ KeyOf(last'.path) \in DOMAIN originals
           /\ LastPatch(KeyOf(last'.path)) # None
           /\ heap[LastPatch(KeyOf(last'.path))].kind = "wrapped"
           /\ LiveOn(heap, KeyOf(last'.path)) = Found(LastPatch(KeyOf(last'.path)))) =>
            LET key == KeyOf(last'.path)
                orig == invoke(heap, originals[key], last'.arg)
            IN  /\ last'.exc = NoExc
                /\ orig.exc = NoExc =>
                       /\ last'.result.value = orig.value
                       /\ last'.result.out = <<heap[LastPatch(key)].msg>> \o orig.out
      ]_vars

\* safe_call on c.K.N.g after hook, patch_function, patch_print: the message
\* is printed once and the result is g0's, not func's.
C11_Witness ==
    /\ last.op = "safe_call" /\ last.path = P_c_K_N_g
    /\ last.result.out = <<"hi">>
    /\ last.result.value = Returned("g0", last.arg)
    /\ KeyOf(P_c_K_N_g) \in DOMAIN originals
    /\ Len(patches[KeyOf(P_c_K_N_g)]) = 2
    /\ heap[patches[KeyOf(P_c_K_N_g)][1]].kind = "rebound"
    /\ heap[patches[KeyOf(P_c_K_N_g)][2]].kind = "wrapped"

\* C12: scan_module_functions never raises: for every module name whose
\* import fails, whatever the reason (the empty name and an error raised
\* while the module is imported included), it returns an empty list and
\* prints a diagnostic.
C12_ScanNeverRaises ==
    (/\ last.op = "scan_module_functions"
     /\ import_module(world, last.path).exc # NoExc)
    => /\ last.exc = NoExc
       /\ last.result.names = {}
       /\ last.result.out # <<>>

\* C13: safe_call resolves the path and calls the attribute that is live at
\* the time of the call (the patched value while the target is patched, the
\* original again after restore); it returns the call's result when
\* resolution, lookup and call all succeed, and returns the absent value
\* without raising when any of them fails.  In every case the records, the
\* hooked set and the live attributes are as before the call.
C13_SafeCallLive ==
    [][last'.op = "safe_call" =>
          LET r == resolve(last'.path)
              live == get_attr(heap, r.module, r.attr_path)
              c == invoke(heap, live.value, last'.arg)
              ok == r.exc = NoExc /\ live.exc = NoExc /\ c.exc = NoExc
          IN  /\ last'.exc = NoExc
              /\ UNCHANGED <<originals, hooked, heap, WrapperinitEnd>>
              /\ ok => last'.result.value = c.value
              /\ ~ok => last'.result.value = None /\ last'.result.out # <<>>
              /\ (/\ ok
                  /\ <<r.module, r.attr_path>> \in DOMAIN originals
                  /\ live.value \in Built
                  /\ heap[live.value].kind = "rebound") =>
                     last'.result.value = Returned(heap[live.value].callee, last'.arg)
      ]_vars

\* safe_call on c.K.N.g right after a restore that took two patches away:
\* the original is called, nothing is printed besides.
C13_Witness ==
    /\ last.op = "safe_call" /\ last.path = P_c_K_N_g
    /\ last.result.value = Returned("g0", last.arg)
    /\ last.result.out = <<>>
    /\ Cardinality(Built) = 2
    /\ KeyOf(P_c_K_N_g) \notin DOMAIN originals
    /\ LiveOn(heap, KeyOf(P_c_K_N_g)) = Found("g0")

\* C14: hook on a path whose module prefix resolves but whose attribute
\* chain has a missing hop fails with AttributeError and leaves the records,
\* the hooked set and the live attributes as they were; a hook on the same
\* path right after it is not rejected with AlreadyHooked.
C14_FailedHookLeavesNothing ==
    [][/\ (/\ last'.op = "hook"
           /\ Resolves(last'.path)
           /\ KeyOf(last'.path) \notin DOMAIN originals
           /\ LiveOn(heap, KeyOf(last'.path)).exc # NoExc) =>
              /\ last'.exc = "AttributeError"
              /\ UNCHANGED <<originals, hooked, heap>>
              /\ KeyOf(last'.path) \notin DOMAIN originals'
       /\ (/\ last.op = "hook" /\ last.exc = "AttributeError"
           /\ last'.op = "hook" /\ last'.path = last.path) =>
              last'.exc # "AlreadyHooked"
      ]_vars

\* hook("c.x") failed on the missing attribute x of module c while another
\* target is hooked; c.x has neither record nor marker.
C14_Witness ==
    /\ last.op = "hook" /\ last.path = P_c_x /\ last.exc = "AttributeError"
    /\ KeyOf(P_c_x) \notin DOMAIN originals
    /\ P_c_x \notin hooked
    /\ DOMAIN originals # {}

\* C15: restore is all-or-nothing: when writing the original back fails (an
\* intermediate hop is missing, or the chain is empty because the path names
\* a module), the call fails and the record and the hooked marker are both
\* still there, so the restore can be retried; the record is never removed
\* while the live attribute was not written.
C15_RestoreAllOrNothing ==
    [][(/\ last'.op = "restore"
        /\ Resolves(last'.path)
        /\ KeyOf(last'.path) \in DOMAIN originals
        /\ last'.exc # NoExc) =>
           /\ originals' = originals
           /\ hooked' = hooked
      ]_vars

\* C16: after any sequence of hook, patch, restore, detach and restore_all
\* calls, every record of the store has at least one path in the hooked set
\* that resolves to its key: list_hooks holds such a path and is_hooked
\* answers true for it.
C16_RecordsHaveMarkers ==
    \A key \in DOMAIN originals :
        \E p \in list_hooks : Resolves(p) /\ KeyOf(p) = key /\ is_hooked(p)

\* The target of c.K.N.g has a record again after it was detached through
\* its other name; the markers of both names are in the hooked set.
C16_Witness ==
    /\ last.op = "hook" /\ last.exc = NoExc
    /\ KeyOf(P_c_K_N_g) \in DOMAIN originals
    /\ {P_c_K_N_g, P_a_b_K_N_g} \subseteq hooked
    /\ Built # {}

\* The value a target's attribute had before the first hook.
FirstValue(key) == LiveOn(Heap0, key)

\* A patch callable is live on the target and the store holds no record of
\* the value before the first hook: the target was patched and detached
\* (and perhaps hooked again since).
Spoiled(key) ==
    /\ LiveOn(heap, key).exc = NoExc
    /\ LiveOn(heap, key).value \in Built
    /\ key \in DOMAIN originals => Found(originals[key]) # FirstValue(key)

\* Neither the live attribute nor the record of the target is the value
\* before the first hook.
Unrecoverable(key) ==
    /\ LiveOn(heap, key) # FirstValue(key)
    /\ key \in DOMAIN originals => Found(originals[key]) # FirstValue(key)

\* The call of the step is made on the target of key, or is unhook.
OnKey(key) ==
    \/ last'.op = "unhook"
    \/ Resolves(last'.path) /\ KeyOf(last'.path) = key

\* hook on a target that was detached while the last patch is live succeeds
\* and records that patch callable; a restore that returns on such a record
\* writes the patch callable back.
RehookKeepsPatch ==
    /\ (/\ last.op = "unhook_target" /\ last.exc = NoExc
        /\ \E hist \in last.dropped :
               /\ hist # <<>>
               /\ LiveOn(heap, KeyOf(last.path)) = Found(hist[Len(hist)])
        /\ last'.op = "hook" /\ last'.path = last.path) =>
           /\ last'.exc = NoExc
           /\ Found(originals'[KeyOf(last.path)]) = LiveOn(heap, KeyOf(last.path))
           /\ originals'[KeyOf(last.path)] \in Built
    /\ (/\ last'.op = "restore" /\ last'.exc = NoExc
        /\ originals[KeyOf(last'.path)] \in Built) =>
           LiveOn(heap', KeyOf(last'.path)) = Found(originals[KeyOf(last'.path)])

\* C17: after hook, patch and detach on a target, hook on the same target
\* succeeds again and captures the patched live value as the new original,
\* and a following restore writes that patched value back; once a patched
\* target is detached, no call on the store returns the live attribute to
\* its value before the first hook.
C17_NeverBackToFirst ==
    [][/\ RehookKeepsPatch
       /\ \A p \in DOMAIN Resolved0 :
              (Resolves(p) /\ Spoiled(KeyOf(p))) =>
                  LiveOn(heap', KeyOf(p)) # FirstValue(KeyOf(p))
      ]_vars

\* C17 for the calls made on the target itself: after hook, patch and detach
\* on a target, hook on the same target succeeds again and captures the
\* patched live value, and a restore that returns writes it back; while
\* neither the live attribute nor the record is the value before the first
\* hook, no hook, patch, restore, detach on that target and no restore_all
\* makes it live or recorded again.
C17_NeverBackByOwnCalls ==
    [][/\ RehookKeepsPatch
       /\ \A p \in DOMAIN Resolved0 :
              (Resolves(p) /\ Unrecoverable(KeyOf(p)) /\ OnKey(KeyOf(p))) =>
                  Unrecoverable(KeyOf(p))'
      ]_vars

\* restore on c.K.N returned and wrote a patch callable back: the target was
\* hooked again after it was detached, and N0 is out of reach of its calls.
C17_Witness ==
    /\ last.op = "restore" /\ last.exc = NoExc /\ last.path = P_c_K_N
    /\ KeyOf(P_c_K_N) \notin DOMAIN originals
    /\ LiveOn(heap, KeyOf(P_c_K_N)).exc = NoExc
    /\ LiveOn(heap, KeyOf(P_c_K_N)).value \in Built
    /\ Unrecoverable(KeyOf(P_c_K_N))

\* C18: WrapperinitEnd is false before any call; it becomes true only in a
\* patch_function call that returns, after the live attribute was assigned
\* the rebound function, and every patch_function call that returns leaves
\* it true; hook and patch_print do not set it; once true it stays true
\* through every later call, restore, unhook_target and unhook included.
C18_FlagSetOnlyByRebind ==
    /\ ~WrapperinitEnd
    /\ [][/\ WrapperinitEnd => WrapperinitEnd'
          /\ (~WrapperinitEnd /\ WrapperinitEnd') =>
                /\ last'.op = "patch_function" /\ last'.exc = NoExc
                /\ LiveOn(heap', KeyOf(last'.path)).exc = NoExc
                /\ LiveOn(heap', KeyOf(last'.path)).value \in Built' \ Built
                /\ heap'[LiveOn(heap', KeyOf(last'.path)).value].kind = "rebound"
          /\ (last'.op = "patch_function" /\ last'.exc = NoExc) => WrapperinitEnd'
          /\ last'.op \in {"hook", "patch_print"} => UNCHANGED WrapperinitEnd
         ]_vars

\* The flag is still true after the only patched target was restored and
\* the store is empty.
C18_Witness ==
    /\ WrapperinitEnd
    /\ last.op = "restore" /\ last.exc = NoExc
    /\ originals = Empty /\ hooked = {}
    /\ LiveOn(heap, KeyOf(P_c_K_N_g)) = Found("g0")

\* C19: the function patch_function installs runs func's code in a lookup
\* environment that is a copy of func's own globals in which every attribute
\* of the resolved module whose name does not start with two underscores and
\* whose access does not raise is bound to the module's value (a same-named
\* global of func is overridden); every other name keeps func's binding, and
\* func's own globals are as before the call.
C19_RebindGlobals ==
    [][(last'.op = "patch_function" /\ last'.exc = NoExc) =>
          LET r == resolve(last'.path)
              module == heap[r.module]
              func == last'.arg
              own == heap[func].globals
              new == LiveOn(heap', KeyOf(last'.path)).value
              env == heap'[new].globals
              Taken(n) == /\ n \in DOMAIN module.attrs
                          /\ ~(Len(n) >= 2 /\ SubSeq(n, 1, 2) = <<"_", "_">>)
                          /\ module.attrs[n] # Raises
          IN  /\ heap'[new].callee = func
              /\ \A n \in DOMAIN module.attrs : Taken(n) =>
                     n \in DOMAIN env /\ env[n] = module.attrs[n]
              /\ \A n \in DOMAIN own : ~Taken(n) =>
                     n \in DOMAIN env /\ env[n] = own[n]
              /\ \A n \in DOMAIN env : Taken(n) \/ n \in DOMAIN own
              /\ heap'[func] = heap[func]
      ]_vars

\* patch_function("c.K.N.g", func): K and _p are the module's, h and __d are
\* func's own, and l, whose access raises, is not bound.
C19_Witness ==
    /\ last.op = "patch_function" /\ last.exc = NoExc /\ last.path = P_c_K_N_g
    /\ LET env == heap[LiveOn(heap, KeyOf(P_c_K_N_g)).value].globals
       IN  /\ DOMAIN env = {A_K, A_under, A_h, A_dunder}
           /\ env[A_K] = "K0" /\ env[A_under] = "p0"
           /\ env[A_h] = "func_h" /\ env[A_dunder] = "func_d"
    /\ heap["func"].globals[A_K] = "func_K"

\* C20: perform_action maps the selected method to exactly one message (the
\* Patch, Inject or Die message, or the no-method message for any other
\* value) and shows it in a dialog titled with the method; an exit is
\* scheduled only by perform_action with method Die, and the process exits
\* only when ExitDelay seconds have passed since a Die dialog was opened;
\* perform_action leaves the records, the hooked set, the live attributes
\* and the flag as they were.
C20_PerformAction ==
    [][/\ Len(app'.dialogs) # Len(app.dialogs) =>
            LET d == app'.dialogs[Len(app'.dialogs)]
            IN  /\ app'.dialogs = Append(app.dialogs, d)
                /\ d.title = app.method
                /\ d.at = app.now
                /\ d.text = IF app.method = "Patch"
                            THEN "Hooked and patched com.axelbolt.standoff2"
                            ELSE IF app.method = "Inject" THEN "Injected"
                            ELSE IF app.method = "Die" THEN "Alr goodbye"
                            ELSE "No method selected"
                /\ app.method # "Die" => app'.timers = app.timers
                /\ app.method = "Die" => app'.timers # {}
                /\ ~app'.exited
                /\ UNCHANGED <<originals, hooked, heap, WrapperinitEnd>>
       /\ app'.timers # app.timers =>
            /\ Len(app'.dialogs) = Len(app.dialogs) + 1
            /\ app.method = "Die"
       /\ (app'.exited /\ ~app.exited) =>
            \E i \in 1..Len(app.dialogs) :
                /\ app.dialogs[i].title = "Die"
                /\ app.dialogs[i].at + ExitDelay <= app.now
      ]_vars

\* The process exited three seconds after the Die dialog, a "No method
\* selected" dialog having been shown before; the patched target's record is
\* still in the store.
C20_Witness ==
    /\ app.exited
    /\ Len(app.dialogs) = 2
    /\ app.dialogs[1].title = "Select" /\ app.dialogs[1].text = "No method selected"
    /\ app.dialogs[2].title = "Die" /\ app.dialogs[2].at + ExitDelay = app.now
    /\ KeyOf(P_c_K_N_g) \in DOMAIN originals
    /\ LiveOn(heap, KeyOf(P_c_K_N_g)).value \in Built

====
